---- MODULE Spec2Model ----
(***************************************************************************)
(* Model of custom_components/yasno_outages/api/cek.py: the CEK provider   *)
(* that rebuilds a per-group, per-day outage schedule from Telegram        *)
(* messages and reconciles it with the Yasno schedule.                     *)
(*                                                                         *)
(* Text is modelled by what the regular expressions extract from it:       *)
(*   - a time token "HH:MM" is the pair <<h, m>>;                          *)
(*   - a RE_TIME_RANGE match is a record [s |-> <<h,m>>, e |-> <<h,m>>];   *)
(*   - a message body part is the sequence of its RE_TIME_RANGE matches.   *)
(***************************************************************************)
EXTENDS Integers, Sequences, FiniteSets, TLC

VARIABLES
    body_text,             \* merger harness: the text part given to the extractor
    final_slots,           \* merger harness: the slot list returned
    merged_again,          \* merger harness: the merger applied to the Definite slots
    merger_pc,             \* merger harness: "input" | "output" | "remerged"
    clock,                 \* the host's clock: Kyiv civil date and minute of the instant,
                           \* and the host timezone's offset from Kyiv in minutes
    today,                 \* _parse_messages_to_schedule: local today (<<y, m, d>>)
    folded,                \* the messages consumed so far from messages_iter
    schedule,              \* _parse_messages_to_schedule: schedule dict
    group_update_times,    \* _parse_messages_to_schedule: group_update_times dict
    fold_pc,               \* "idle" | "loop" | "done" | "raised"
    group,                 \* self.group
    planned_outages_data,  \* self.planned_outages_data
    yasno_data,            \* fetch_planned_outages_data: local yasno_data
    yasno_ok,              \* whether the super() fetch returned without raising
    cek_data,              \* fetch_planned_outages_data: local cek_data
    pc,                    \* fetch_planned_outages_data: "idle" | "telegram" | "combine" | "done"
    outcome                \* how the last fetch_planned_outages_data call ended

vars == <<body_text, final_slots, merged_again, merger_pc, clock, today, folded, schedule,
          group_update_times, fold_pc, group, planned_outages_data,
          yasno_data, yasno_ok, cek_data, pc, outcome>>

mergerVars == <<body_text, final_slots, merged_again, merger_pc>>
foldVars == <<clock, today, folded, schedule, group_update_times, fold_pc>>
reconVars == <<group, planned_outages_data, yasno_data, yasno_ok, cek_data, pc, outcome>>

(***************************************************************************)
(* Program constants.                                                      *)
(***************************************************************************)
MINUTES_IN_DAY == 1440
MONTH_JANUARY == 1
MONTH_DECEMBER == 12

NOT_PLANNED == "NotPlanned"
DEFINITE == "Definite"

API_KEY_TODAY == "today"
API_KEY_TOMORROW == "tomorrow"
API_KEY_STATUS == "status"
DayKeys == {API_KEY_TODAY, API_KEY_TOMORROW}
API_STATUS_EMERGENCY_SHUTDOWNS == "EmergencyShutdowns"
API_STATUS_SCHEDULE_APPLIES == "ScheduleApplies"
API_STATUS_WAITING_FOR_SCHEDULE == "WaitingForSchedule"

(***************************************************************************)
(* Python None, and Python truthiness of an optional dict.                 *)
(***************************************************************************)
None == [none |-> TRUE]
EmptyDict == <<>>
Truthy(d) == d # None /\ d # EmptyDict

Max(a, b) == IF a >= b THEN a ELSE b

(***************************************************************************)
(* _time_to_minutes and _extract_outage_ranges.                            *)
(***************************************************************************)
TimeToMinutes(time_str) == time_str[1] * 60 + time_str[2]

ExtractOutageRanges(text) ==
    [i \in 1..Len(text) |->
        LET start_min == TimeToMinutes(text[i].s)
            end_min == TimeToMinutes(text[i].e)
        IN  <<start_min, IF end_min = 0 THEN MINUTES_IN_DAY ELSE end_min>>]

(***************************************************************************)
(* list.sort() on a list of (start, end) tuples: lexicographic order.      *)
(***************************************************************************)
TupleLE(a, b) == a[1] < b[1] \/ (a[1] = b[1] /\ a[2] <= b[2])

RECURSIVE InsertSorted(_, _)
InsertSorted(sorted, r) ==
    IF sorted = <<>> THEN <<r>>
    ELSE IF TupleLE(r, Head(sorted)) THEN <<r>> \o sorted
    ELSE <<Head(sorted)>> \o InsertSorted(Tail(sorted), r)

RECURSIVE SortRanges(_)
SortRanges(ranges) ==
    IF ranges = <<>> THEN <<>>
    ELSE InsertSorted(SortRanges(Tail(ranges)), Head(ranges))

(***************************************************************************)
(* _ranges_to_slots: the merge sweep, then the expansion into slots.       *)
(***************************************************************************)
\* faulty variant for C19: a range that only touches the running end is not coalesced
RECURSIVE MergeLoop_StrictOverlap(_, _, _, _)
MergeLoop_StrictOverlap(rest, curr_start, curr_end, merged) ==
    IF rest = <<>> THEN Append(merged, <<curr_start, curr_end>>)
    ELSE LET next_start == Head(rest)[1]
             next_end == Head(rest)[2]
         IN  IF next_start < curr_end
             THEN MergeLoop_StrictOverlap(Tail(rest), curr_start,
                                          Max(curr_end, next_end), merged)
             ELSE MergeLoop_StrictOverlap(Tail(rest), next_start, next_end,
                                          Append(merged, <<curr_start, curr_end>>))

RECURSIVE MergeLoop(_, _, _, _)
MergeLoop(rest, curr_start, curr_end, merged) ==
    IF rest = <<>> THEN Append(merged, <<curr_start, curr_end>>)
    ELSE LET next_start == Head(rest)[1]
             next_end == Head(rest)[2]
         IN  IF next_start <= curr_end
             THEN MergeLoop(Tail(rest), curr_start, Max(curr_end, next_end), merged)
             ELSE MergeLoop(Tail(rest), next_start, next_end,
                            Append(merged, <<curr_start, curr_end>>))

MergeOverlaps(sorted) ==
    MergeLoop(Tail(sorted), sorted[1][1], sorted[1][2], <<>>)

Slot(start, end, type) == [start |-> start, end |-> end, type |-> type]

\* faulty variant for C13: the gap before a merged interval is typed Definite
RECURSIVE SlotLoop_GapDefinite(_, _, _)
SlotLoop_GapDefinite(merged, current_time, slots) ==
    IF merged = <<>>
    THEN IF current_time < MINUTES_IN_DAY
         THEN Append(slots, Slot(current_time, MINUTES_IN_DAY, NOT_PLANNED))
         ELSE slots
    ELSE LET start == Head(merged)[1]
             end == Head(merged)[2]
             gap == IF start > current_time
                    THEN <<Slot(current_time, start, DEFINITE)>>
                    ELSE <<>>
         IN  SlotLoop_GapDefinite(Tail(merged), end,
                                  (slots \o gap) \o <<Slot(start, end, DEFINITE)>>)

RECURSIVE SlotLoop(_, _, _)
SlotLoop(merged, current_time, slots) ==
    IF merged = <<>>
    THEN IF current_time < MINUTES_IN_DAY
         THEN Append(slots, Slot(current_time, MINUTES_IN_DAY, NOT_PLANNED))
         ELSE slots
    ELSE LET start == Head(merged)[1]
             end == Head(merged)[2]
             gap == IF start > current_time
                    THEN <<Slot(current_time, start, NOT_PLANNED)>>
                    ELSE <<>>
         IN  SlotLoop(Tail(merged), end,
                      (slots \o gap) \o <<Slot(start, end, DEFINITE)>>)

RangesToSlots(ranges) ==
    IF ranges = <<>>
    THEN <<Slot(0, MINUTES_IN_DAY, NOT_PLANNED)>>
    ELSE SlotLoop(MergeOverlaps(SortRanges(ranges)), 0, <<>>)

(***************************************************************************)
(* The calendar of datetime.date: a date is <<year, month, day>>.          *)
(* datetime.date(y, m, d) raises ValueError unless ValidDate(y, m, d).     *)
(***************************************************************************)
IsLeap(y) == (y % 4 = 0 /\ y % 100 # 0) \/ y % 400 = 0

DaysInMonth(y, m) ==
    IF m = 2 THEN (IF IsLeap(y) THEN 29 ELSE 28)
    ELSE IF m \in {4, 6, 9, 11} THEN 30 ELSE 31

ValidDate(y, m, d) == m \in 1..12 /\ d >= 1 /\ d <= DaysInMonth(y, m)

\* today + datetime.timedelta(days=1)
NextDay(date) ==
    IF date[3] < DaysInMonth(date[1], date[2])
    THEN <<date[1], date[2], date[3] + 1>>
    ELSE IF date[2] < 12 THEN <<date[1], date[2] + 1, 1>>
    ELSE <<date[1] + 1, 1, 1>>

(***************************************************************************)
(* MONTHS_MAP, keyed by the upper-cased month word (transliterated).       *)
(***************************************************************************)
MONTHS_MAP ==
    [w \in {"SICHNYA", "LYUTOGO", "BEREZNYA", "KVITNYA", "TRAVNYA", "CHERVNYA",
            "LYPNYA", "SERPNYA", "VERESNYA", "ZHOVTNYA", "LYSTOPADA", "GRUDNYA"} |->
        CASE w = "SICHNYA" -> 1
          [] w = "LYUTOGO" -> 2
          [] w = "BEREZNYA" -> 3
          [] w = "KVITNYA" -> 4
          [] w = "TRAVNYA" -> 5
          [] w = "CHERVNYA" -> 6
          [] w = "LYPNYA" -> 7
          [] w = "SERPNYA" -> 8
          [] w = "VERESNYA" -> 9
          [] w = "ZHOVTNYA" -> 10
          [] w = "LYSTOPADA" -> 11
          [] w = "GRUDNYA" -> 12]

(***************************************************************************)
(* Publication times.  A pub_time is the string of the <time datetime=..>  *)
(* attribute, or NoPubTime when the block has none (Python None).          *)
(* FromIsoFormat gives what datetime.fromisoformat makes of the string:    *)
(* an aware datetime, a naive one, or ValueError; inst is the instant in   *)
(* minutes.  Comparing an aware with a naive datetime raises TypeError.    *)
(***************************************************************************)
NoPubTime == "None"

FromIsoFormat(s) ==
    CASE s = "2024-12-31T08:00:00+00:00" -> [kind |-> "aware", inst |-> 480]
      [] s = "2024-12-31T09:00:00+00:00" -> [kind |-> "aware", inst |-> 540]
      [] s = "2024-12-31T11:00:00+02:00" -> [kind |-> "aware", inst |-> 540]
      [] s = "2024-12-31T10:00:00" -> [kind |-> "naive", inst |-> 600]
      [] OTHER -> [kind |-> "ValueError", inst |-> 0]

\* faulty variant for C9: the newest arrival always wins
LatestTime_LastWins(times, g, pub_time) == pub_time

\* lines 266-279: the value of group_update_times[group] after a message
\* with a truthy pub_time touched the group
LatestTime(times, g, pub_time) ==
    IF g \notin DOMAIN times THEN pub_time
    ELSE LET current_time == FromIsoFormat(times[g])
             new_time == FromIsoFormat(pub_time)
         IN  IF current_time.kind = "ValueError" \/ new_time.kind = "ValueError"
             THEN pub_time
             ELSE IF current_time.kind # new_time.kind
             THEN pub_time
             ELSE IF new_time.inst > current_time.inst THEN pub_time
             ELSE times[g]

UpdateTimes(times, groups, pub_time) ==
    [g \in (DOMAIN times) \cup groups |->
        IF g \in groups THEN LatestTime(times, g, pub_time) ELSE times[g]]

(***************************************************************************)
(* _parse_message_body.  A message text is modelled by what the regular    *)
(* expressions find in it:                                                 *)
(*   city  : some IGNORED_CITIES entry occurs in the upper-cased text      *)
(*   dates : the RE_DATE matches in text order, [day, word] (upper-cased)  *)
(*   full  : some FULL_SCHEDULE_MARKERS entry occurs in the lower text     *)
(*   segs  : the group markers in text order, each with the body part      *)
(*           that follows it, [group, body]                                *)
(*   pub   : the publication time paired with the text                     *)
(***************************************************************************)
NewDay(date_str) ==
    [date |-> date_str, status |-> API_STATUS_SCHEDULE_APPLIES, slots |-> <<>>]

RawRanges(day_data) ==
    IF "raw_ranges" \in DOMAIN day_data THEN day_data.raw_ranges ELSE <<>>

\* faulty variant for C1: a patch replaces the accumulated ranges like a full update
UpdateRaw_AlwaysReplace(raw_ranges, ranges, is_full_update) == ranges

\* lines 380-386: the raw ranges after a full update or a patch
UpdateRaw(raw_ranges, ranges, is_full_update) ==
    IF is_full_update THEN ranges ELSE raw_ranges \o ranges

\* faulty variant for C14: the group's entry is rebuilt, losing its other day
ApplyPart_ResetsGroup(sched, current_group, ranges, date_str, day_key, is_full_update) ==
    LET group_data == IF current_group \in DOMAIN sched
                      THEN sched[current_group] ELSE EmptyDict
        current_day_data == IF day_key \in DOMAIN group_data
                            THEN group_data[day_key] ELSE NewDay(date_str)
        raw_ranges == UpdateRaw(RawRanges(current_day_data), ranges, is_full_update)
        new_day == [date |-> current_day_data.date,
                    status |-> current_day_data.status,
                    slots |-> RangesToSlots(raw_ranges),
                    raw_ranges |-> SortRanges(raw_ranges)]
    IN  (current_group :> (day_key :> new_day)) @@ sched

\* lines 357-391 for one body part; _ranges_to_slots sorts raw_ranges in place
ApplyPart(sched, current_group, ranges, date_str, day_key, is_full_update) ==
    LET group_data == IF current_group \in DOMAIN sched
                      THEN sched[current_group] ELSE EmptyDict
        current_day_data == IF day_key \in DOMAIN group_data
                            THEN group_data[day_key] ELSE NewDay(date_str)
        raw_ranges == UpdateRaw(RawRanges(current_day_data), ranges, is_full_update)
        new_day == [date |-> current_day_data.date,
                    status |-> current_day_data.status,
                    slots |-> RangesToSlots(raw_ranges),
                    raw_ranges |-> SortRanges(raw_ranges)]
    IN  (current_group :> ((day_key :> new_day) @@ group_data)) @@ sched

RECURSIVE ParseMessageBody(_, _, _, _, _, _)
ParseMessageBody(segs, date_str, day_key, sched, is_full_update, groups_updated) ==
    IF segs = <<>> THEN [schedule |-> sched, groups_updated |-> groups_updated]
    ELSE LET current_group == Head(segs).group
             ranges == ExtractOutageRanges(Head(segs).body)
         IN  IF ranges = <<>>
             THEN ParseMessageBody(Tail(segs), date_str, day_key, sched,
                                   is_full_update, groups_updated)
             ELSE ParseMessageBody(Tail(segs), date_str, day_key,
                                   ApplyPart(sched, current_group, ranges, date_str,
                                             day_key, is_full_update),
                                   is_full_update,
                                   groups_updated \cup {current_group})

(***************************************************************************)
(* One iteration of the loop of _parse_messages_to_schedule.               *)
(***************************************************************************)
\* faulty variant for C10: no rollover across the December/January boundary
ResolveYear_NoRollover(now, month_num) == now[1]

\* lines 220-228
ResolveYear(now, month_num) ==
    IF month_num = MONTH_JANUARY /\ now[2] = MONTH_DECEMBER THEN now[1] + 1
    ELSE IF month_num = MONTH_DECEMBER /\ now[2] = MONTH_JANUARY THEN now[1] - 1
    ELSE now[1]

\* lines 239-245; Skip stands for the continue
DayKey(msg_date, now) ==
    IF msg_date = now THEN API_KEY_TODAY
    ELSE IF msg_date = NextDay(now) THEN API_KEY_TOMORROW
    ELSE "Skip"

\* faulty variant for C11: the IGNORED_CITIES test is missing
Classify_NoCityCheck(msg, now) ==
    IF msg.dates = <<>> THEN [kind |-> "skip"]
    ELSE IF msg.dates[1].word \notin DOMAIN MONTHS_MAP THEN [kind |-> "skip"]
    ELSE LET day_num == msg.dates[1].day
             month_num == MONTHS_MAP[msg.dates[1].word]
             year == ResolveYear(now, month_num)
         IN  IF ~ValidDate(year, month_num, day_num) THEN [kind |-> "raise"]
             ELSE IF DayKey(<<year, month_num, day_num>>, now) = "Skip"
             THEN [kind |-> "skip"]
             ELSE [kind |-> "apply",
                   date |-> <<year, month_num, day_num>>,
                   day_key |-> DayKey(<<year, month_num, day_num>>, now)]

\* lines 206-245: "skip" (continue), "raise" (ValueError of datetime.date),
\* or the date and day key the body is parsed under
Classify(msg, now) ==
    IF msg.city THEN [kind |-> "skip"]
    ELSE IF msg.dates = <<>> THEN [kind |-> "skip"]
    ELSE IF msg.dates[1].word \notin DOMAIN MONTHS_MAP THEN [kind |-> "skip"]
    ELSE LET day_num == msg.dates[1].day
             month_num == MONTHS_MAP[msg.dates[1].word]
             year == ResolveYear(now, month_num)
         IN  IF ~ValidDate(year, month_num, day_num) THEN [kind |-> "raise"]
             ELSE IF DayKey(<<year, month_num, day_num>>, now) = "Skip"
             THEN [kind |-> "skip"]
             ELSE [kind |-> "apply",
                   date |-> <<year, month_num, day_num>>,
                   day_key |-> DayKey(<<year, month_num, day_num>>, now)]

\* lines 205-279 for one message, on the loop state [schedule, times]
ParseMessage(st, msg, now) ==
    LET c == Classify(msg, now)
    IN  IF c.kind = "raise" THEN [status |-> "raised", schedule |-> st.schedule,
                                  times |-> st.times]
        ELSE IF c.kind = "skip" THEN [status |-> "ok", schedule |-> st.schedule,
                                      times |-> st.times]
        ELSE LET r == ParseMessageBody(msg.segs, c.date, c.day_key, st.schedule,
                                       msg.full, {})
             IN  [status |-> "ok",
                  schedule |-> r.schedule,
                  times |-> IF msg.pub # NoPubTime
                            THEN UpdateTimes(st.times, r.groups_updated, msg.pub)
                            ELSE st.times]

(***************************************************************************)
(* _fill_missing_days and the updatedOn pass (lines 281-298).              *)
(***************************************************************************)
WaitingDay(date) ==
    [date |-> date, status |-> API_STATUS_WAITING_FOR_SCHEDULE, slots |-> <<>>]

\* faulty variant for C8: only today is backfilled
FillMissingDays_TodayOnly(sched, now, tomorrow) ==
    [g \in DOMAIN sched |-> sched[g] @@ (API_KEY_TODAY :> WaitingDay(now))]

FillMissingDays(sched, now, tomorrow) ==
    [g \in DOMAIN sched |->
        sched[g] @@ (API_KEY_TODAY :> WaitingDay(now))
                 @@ (API_KEY_TOMORROW :> WaitingDay(tomorrow))]

\* datetime.datetime.now(tz=kyiv_tz).isoformat()
CurrentTime == "current_time"

SetUpdatedOn(sched, times) ==
    [g \in DOMAIN sched |->
        ("updatedOn" :> (IF g \in DOMAIN times THEN times[g] ELSE CurrentTime))
            @@ sched[g]]

FinishSchedule(sched, times, now) ==
    SetUpdatedOn(FillMissingDays(sched, now, NextDay(now)), times)

\* _parse_messages_to_schedule as a whole: the returned dict, or "raised"
RECURSIVE FoldMessages(_, _, _)
FoldMessages(st, msgs, now) ==
    IF msgs = <<>> \/ st.status = "raised" THEN st
    ELSE FoldMessages(ParseMessage(st, Head(msgs), now), Tail(msgs), now)

ParseMessagesToSchedule(msgs, now) ==
    LET st == FoldMessages([status |-> "ok", schedule |-> EmptyDict,
                            times |-> EmptyDict], msgs, now)
    IN  IF st.status = "raised" THEN [status |-> "raised", schedule |-> EmptyDict]
        ELSE [status |-> "ok",
              schedule |-> FinishSchedule(st.schedule, st.times, now)]

(***************************************************************************)
(* fetch_planned_outages_data: the combine logic (lines 118-136) and       *)
(* _inject_emergency_status (lines 138-153).                               *)
(***************************************************************************)
HTTP_OK == 200

StatusOf(day_data) ==
    IF API_KEY_STATUS \in DOMAIN day_data THEN day_data[API_KEY_STATUS] ELSE "None"

\* faulty variant for C5: the secondary status is copied whatever its value
InjectEmergencyStatus_AnyStatus(cek, yasno, grp) ==
    LET yasno_group == yasno[grp]
        cek_group == cek[grp]
    IN  (grp :> [k \in DOMAIN cek_group |->
                    IF k \in DayKeys /\ k \in DOMAIN yasno_group
                    THEN [cek_group[k] EXCEPT !.status = StatusOf(yasno_group[k])]
                    ELSE cek_group[k]]) @@ cek

InjectEmergencyStatus(cek, yasno, grp) ==
    LET yasno_group == yasno[grp]
        cek_group == cek[grp]
    IN  (grp :> [k \in DOMAIN cek_group |->
                    IF /\ k \in DayKeys
                       /\ k \in DOMAIN yasno_group
                       /\ StatusOf(yasno_group[k]) = API_STATUS_EMERGENCY_SHUTDOWNS
                    THEN [cek_group[k] EXCEPT !.status = API_STATUS_EMERGENCY_SHUTDOWNS]
                    ELSE cek_group[k]]) @@ cek

HasGroup(data, grp) == Truthy(data) /\ grp \in DOMAIN data

\* faulty variant for C6: the primary is published whenever it is non-empty
Combine_AnyPrimary(cek, yasno, current, grp) ==
    IF Truthy(cek)
    THEN IF HasGroup(cek, grp) /\ HasGroup(yasno, grp)
         THEN InjectEmergencyStatus(cek, yasno, grp)
         ELSE cek
    ELSE IF Truthy(yasno) THEN yasno
    ELSE current

\* the value of self.planned_outages_data after lines 119-136
Combine(cek, yasno, current, grp) ==
    IF HasGroup(cek, grp)
    THEN IF HasGroup(yasno, grp)
         THEN InjectEmergencyStatus(cek, yasno, grp)
         ELSE cek
    ELSE IF Truthy(yasno) THEN yasno
    ELSE current

\* reversed(messages)
Reverse(messages) == [i \in 1..Len(messages) |-> messages[Len(messages) + 1 - i]]

\* _fetch_telegram_data followed by the except clauses of lines 108-116:
\* the value cek_data is left with
FetchTelegramData(response, now) ==
    IF response.kind = "ClientError" THEN None
    ELSE IF response.status # HTTP_OK THEN None
    ELSE LET r == ParseMessagesToSchedule(Reverse(response.messages), now)
         IN  IF r.status = "raised" THEN None ELSE r.schedule

(***************************************************************************)
(* Bounded inputs of the merger harness.                                   *)
(***************************************************************************)
MaxRanges == 2

TimeTokens == {<<0, 0>>, <<6, 0>>, <<11, 0>>, <<14, 30>>, <<25, 0>>}
RangeTokens == [s : TimeTokens, e : TimeTokens]

SeqsUpTo(S, n) == UNION {[1..k -> S] : k \in 0..n}

(***************************************************************************)
(* Merger harness: the extractor followed by the Interval Merger.          *)
(***************************************************************************)
(***************************************************************************)
(* line 202: today = datetime.datetime.now().date() is the calendar date   *)
(* of the instant in the host's local timezone.  A clock gives the instant *)
(* as the Kyiv civil date and minute of day, with the host timezone's      *)
(* offset from Kyiv in minutes.                                            *)
(***************************************************************************)
PrevDay(date) ==
    LET y == date[1]
        m == date[2]
        d == date[3]
    IN  IF d > 1 THEN <<y, m, d - 1>>
        ELSE IF m > 1 THEN <<y, m - 1, DaysInMonth(y, m - 1)>>
        ELSE <<y - 1, 12, 31>>

LocalToday(c) ==
    LET local_minute == c.minute + c.offset
    IN  IF local_minute < 0 THEN PrevDay(c.date)
        ELSE IF local_minute >= MINUTES_IN_DAY THEN NextDay(c.date)
        ELSE c.date

\* a host whose local timezone is Europe/Kyiv, at noon
KyivHost(now) == [date |-> now, minute |-> 720, offset |-> 0]

FoldIdle ==
    /\ clock = KyivHost(<<2024, 12, 31>>)
    /\ today = LocalToday(clock)
    /\ folded = <<>>
    /\ schedule = EmptyDict
    /\ group_update_times = EmptyDict
    /\ fold_pc = "idle"

ReconIdle ==
    /\ group = "1.1"
    /\ planned_outages_data = None
    /\ yasno_data = None
    /\ yasno_ok = FALSE
    /\ cek_data = None
    /\ pc = "idle"
    /\ outcome = "none"

MergerIdle ==
    /\ body_text = <<>>
    /\ final_slots = <<>>
    /\ merged_again = <<>>
    /\ merger_pc = "idle"

InitMerger ==
    /\ body_text \in SeqsUpTo(RangeTokens, MaxRanges)
    /\ final_slots = <<>>
    /\ merged_again = <<>>
    /\ merger_pc = "input"
    /\ FoldIdle
    /\ ReconIdle

MergeText ==
    /\ merger_pc = "input"
    /\ final_slots' = RangesToSlots(ExtractOutageRanges(body_text))
    /\ merger_pc' = "output"
    /\ UNCHANGED <<body_text, merged_again, foldVars, reconVars>>

\* the Definite slots of a slot list, read back as a range list
DefiniteRanges(slots) ==
    LET definite == SelectSeq(slots, LAMBDA sl : sl.type = DEFINITE)
    IN  [i \in 1..Len(definite) |-> <<definite[i].start, definite[i].end>>]

MergeAgain ==
    /\ merger_pc = "output"
    /\ merged_again' = RangesToSlots(DefiniteRanges(final_slots))
    /\ merger_pc' = "remerged"
    /\ UNCHANGED <<body_text, final_slots, foldVars, reconVars>>

NextMerger == MergeText \/ MergeAgain

SpecMerger == InitMerger /\ [][NextMerger]_vars

(***************************************************************************)
(* Bounded inputs of the fold.                                             *)
(***************************************************************************)
MaxMsgs == 2
MaxDateMsgs == 1

G1 == "1.1"
G2 == "2.1"
Groups == {G1, G2}

Tok(h1, m1, h2, m2) == [s |-> <<h1, m1>>, e |-> <<h2, m2>>]
R_06_11 == Tok(6, 0, 11, 0)
R_14_16 == Tok(14, 0, 16, 0)
R_22_00 == Tok(22, 0, 0, 0)
R_11_06 == Tok(11, 0, 6, 0)

Seg(g, body) == [group |-> g, body |-> body]
DateTok(day, word) == [day |-> day, word |-> word]
Msg(city, dates, full, segs, pub) ==
    [city |-> city, dates |-> dates, full |-> full, segs |-> segs, pub |-> pub]

FoldSegs ==
    { <<Seg(G1, <<R_06_11>>)>>,
      <<Seg(G1, <<R_14_16>>)>>,
      <<Seg(G1, <<R_06_11>>), Seg(G1, <<R_14_16>>)>>,
      <<Seg(G2, <<R_22_00, R_11_06>>)>>,
      <<Seg(G1, <<>>), Seg(G2, <<R_14_16>>)>> }

T_08 == "2024-12-31T08:00:00+00:00"
T_09 == "2024-12-31T09:00:00+00:00"
T_09_KYIV == "2024-12-31T11:00:00+02:00"
T_NAIVE == "2024-12-31T10:00:00"
T_GARBAGE == "yesterday"

FoldNows == {<<2024, 12, 31>>}
TodayText == <<DateTok(31, "GRUDNYA")>>
TomorrowText == <<DateTok(1, "SICHNYA")>>

CoreMessages ==
    { Msg(FALSE, d[1], full, segs, d[2]) :
        d \in {<<TodayText, T_08>>, <<TodayText, T_09>>, <<TomorrowText, T_08>>},
        full \in BOOLEAN,
        segs \in FoldSegs }

PatchToday(city, dates, pub) == Msg(city, dates, FALSE, <<Seg(G1, <<R_06_11>>)>>, pub)

SpecialMessages ==
    { PatchToday(TRUE, TodayText, T_09),
      PatchToday(FALSE, <<>>, T_09),
      PatchToday(FALSE, <<DateTok(5, "DO")>> \o TodayText, T_09),
      PatchToday(FALSE, <<DateTok(30, "GRUDNYA")>>, T_09),
      PatchToday(FALSE, <<DateTok(31, "LYUTOGO")>>, T_09),
      PatchToday(FALSE, TodayText, NoPubTime),
      PatchToday(FALSE, TodayText, T_GARBAGE),
      PatchToday(FALSE, TodayText, T_NAIVE),
      PatchToday(FALSE, TodayText, T_09_KYIV) }

Messages == CoreMessages \cup SpecialMessages

DateNows ==
    { <<2024, 12, 31>>, <<2025, 1, 1>>, <<2024, 12, 1>>, <<2024, 1, 31>>,
      <<2024, 2, 28>>, <<2023, 2, 28>>, <<2024, 6, 30>>, <<2024, 11, 30>> }

DateMessages ==
    { PatchToday(FALSE, <<DateTok(day, word)>>, T_08) :
        day \in {0, 1, 2, 28, 29, 30, 31},
        word \in (DOMAIN MONTHS_MAP) \cup {"DO"} }

(***************************************************************************)
(* The fold, one message per step.                                         *)
(***************************************************************************)
InitFold ==
    /\ \E now \in FoldNows : clock = KyivHost(now)
    /\ today = LocalToday(clock)
    /\ folded = <<>>
    /\ schedule = EmptyDict
    /\ group_update_times = EmptyDict
    /\ fold_pc = "loop"
    /\ MergerIdle
    /\ ReconIdle

FoldStep(msg) ==
    /\ fold_pc = "loop"
    /\ LET r == ParseMessage([schedule |-> schedule, times |-> group_update_times],
                             msg, today)
       IN  /\ schedule' = r.schedule
           /\ group_update_times' = r.times
           /\ fold_pc' = IF r.status = "raised" THEN "raised" ELSE "loop"
    /\ folded' = Append(folded, msg)
    /\ UNCHANGED <<clock, today, mergerVars, reconVars>>

FoldFinish ==
    /\ fold_pc = "loop"
    /\ schedule' = FinishSchedule(schedule, group_update_times, today)
    /\ fold_pc' = "done"
    /\ UNCHANGED <<clock, today, folded, group_update_times, mergerVars, reconVars>>

NextFold ==
    \/ \E msg \in Messages : Len(folded) < MaxMsgs /\ FoldStep(msg)
    \/ FoldFinish

SpecFold == InitFold /\ [][NextFold]_vars

InitDate ==
    /\ \E now \in DateNows : clock = KyivHost(now)
    /\ today = LocalToday(clock)
    /\ folded = <<>>
    /\ schedule = EmptyDict
    /\ group_update_times = EmptyDict
    /\ fold_pc = "loop"
    /\ MergerIdle
    /\ ReconIdle

NextDate ==
    \/ \E msg \in DateMessages : Len(folded) < MaxDateMsgs /\ FoldStep(msg)
    \/ FoldFinish

SpecDate == InitDate /\ [][NextDate]_vars

(***************************************************************************)
(* The fold on hosts in different timezones: the instant is late evening,  *)
(* noon or just past midnight in Kyiv on 2024-12-31, and the host's local  *)
(* timezone is UTC-8, UTC, Europe/Kyiv or UTC+9.                           *)
(***************************************************************************)
MaxTzMsgs == 1

Clocks ==
    [date : {<<2024, 12, 31>>}, minute : {30, 720, 1410}, offset : {-600, -120, 0, 420}]

InitTz ==
    /\ clock \in Clocks
    /\ today = LocalToday(clock)
    /\ folded = <<>>
    /\ schedule = EmptyDict
    /\ group_update_times = EmptyDict
    /\ fold_pc = "loop"
    /\ MergerIdle
    /\ ReconIdle

NextTz ==
    \/ \E msg \in Messages : Len(folded) < MaxTzMsgs /\ FoldStep(msg)
    \/ FoldFinish

SpecTz == InitTz /\ [][NextTz]_vars

(***************************************************************************)
(* Bounded inputs of the reconciler.                                       *)
(***************************************************************************)
MaxFeed == 2

ReconNow == <<2024, 12, 31>>

ReconMessages ==
    { Msg(FALSE, TodayText, TRUE, <<Seg(G1, <<R_06_11>>)>>, T_08),
      Msg(FALSE, TodayText, FALSE, <<Seg(G1, <<R_14_16>>)>>, T_09),
      Msg(FALSE, TomorrowText, FALSE, <<Seg(G2, <<R_22_00>>)>>, T_08),
      PatchToday(FALSE, <<DateTok(31, "LYUTOGO")>>, T_09) }

Responses ==
    {[kind |-> "ClientError"]}
    \cup [kind : {"response"}, status : {HTTP_OK, 500},
          messages : SeqsUpTo(ReconMessages, MaxFeed)]

\* what the Yasno fetch of the superclass may leave in planned_outages_data
YasnoDay(date, status) ==
    [date |-> date, status |-> status, slots |-> <<Slot(0, 1440, DEFINITE)>>]

YasnoGroupData(today_status, tomorrow_status) ==
    LET t == IF today_status = "absent" THEN EmptyDict
             ELSE (API_KEY_TODAY :> YasnoDay(<<2024, 12, 31>>, today_status))
        n == IF tomorrow_status = "absent" THEN EmptyDict
             ELSE (API_KEY_TOMORROW :> YasnoDay(<<2025, 1, 1>>, tomorrow_status))
    IN  ("updatedOn" :> T_08) @@ t @@ n

YasnoValues ==
    {None, EmptyDict}
    \cup { (G1 :> YasnoGroupData(a, b)) :
             a \in {API_STATUS_EMERGENCY_SHUTDOWNS, API_STATUS_SCHEDULE_APPLIES, "absent"},
             b \in {API_STATUS_EMERGENCY_SHUTDOWNS, API_STATUS_WAITING_FOR_SCHEDULE,
                    "absent"} }
    \cup { (G2 :> YasnoGroupData(API_STATUS_EMERGENCY_SHUTDOWNS,
                                 API_STATUS_WAITING_FOR_SCHEDULE)) }

(***************************************************************************)
(* fetch_planned_outages_data, in its three steps; the object lives on     *)
(* between calls.                                                          *)
(***************************************************************************)
Init ==
    /\ group \in Groups
    /\ planned_outages_data = None
    /\ yasno_data = None
    /\ yasno_ok = FALSE
    /\ cek_data = None
    /\ pc = "idle"
    /\ outcome = "none"
    /\ MergerIdle
    /\ FoldIdle

\* lines 99-104: super().fetch_planned_outages_data() stores its result in
\* self.planned_outages_data
FetchYasnoOk(data) ==
    /\ pc \in {"idle", "done"}
    /\ planned_outages_data' = data
    /\ yasno_data' = data
    /\ yasno_ok' = TRUE
    /\ cek_data' = None
    /\ pc' = "telegram"
    /\ outcome' = "running"
    /\ UNCHANGED <<group, mergerVars, foldVars>>

\* lines 103-104: the super() fetch raised
FetchYasnoRaises ==
    /\ pc \in {"idle", "done"}
    /\ yasno_data' = None
    /\ yasno_ok' = FALSE
    /\ cek_data' = None
    /\ pc' = "telegram"
    /\ outcome' = "running"
    /\ UNCHANGED <<group, planned_outages_data, mergerVars, foldVars>>

\* lines 107-116
FetchTelegram(response) ==
    /\ pc = "telegram"
    /\ cek_data' = FetchTelegramData(response, ReconNow)
    /\ pc' = "combine"
    /\ UNCHANGED <<group, planned_outages_data, yasno_data, yasno_ok, outcome,
                   mergerVars, foldVars>>

\* lines 118-136; with the primary published, cek_data and
\* self.planned_outages_data are the same dict
CombineStep ==
    /\ pc = "combine"
    /\ planned_outages_data' = Combine(cek_data, yasno_data, planned_outages_data, group)
    /\ cek_data' = IF HasGroup(cek_data, group)
                   THEN planned_outages_data' ELSE cek_data
    /\ pc' = "done"
    /\ outcome' = "returned"
    /\ UNCHANGED <<group, yasno_data, yasno_ok, mergerVars, foldVars>>

Next ==
    \/ \E data \in YasnoValues : FetchYasnoOk(data)
    \/ FetchYasnoRaises
    \/ \E response \in Responses : FetchTelegram(response)
    \/ CombineStep

Spec == Init /\ [][Next]_vars

(***************************************************************************)
(* Vocabulary of the properties of the fold.                               *)
(***************************************************************************)
\* every range the message lists for group g, over all its segments
RECURSIVE AllRangesFor(_, _)
AllRangesFor(segs, g) ==
    IF segs = <<>> THEN <<>>
    ELSE (IF Head(segs).group = g THEN ExtractOutageRanges(Head(segs).body) ELSE <<>>)
         \o AllRangesFor(Tail(segs), g)

\* the message is applied to day key k and lists at least one range for g
Touches(msg, g, k, now) ==
    /\ Classify(msg, now).kind = "apply"
    /\ Classify(msg, now).day_key = k
    /\ AllRangesFor(msg.segs, g) # <<>>

TouchesGroup(msg, g, now) == \E k \in DayKeys : Touches(msg, g, k, now)

HasDay(sched, g, k) == g \in DOMAIN sched /\ k \in DOMAIN sched[g]
RawOf(sched, g, k) == IF HasDay(sched, g, k) THEN RawRanges(sched[g][k]) ELSE <<>>
SlotsOf(sched, g, k) == IF HasDay(sched, g, k) THEN sched[g][k].slots ELSE <<>>

\* a step of the loop that consumed one message without raising
LoopStep ==
    /\ fold_pc = "loop"
    /\ fold_pc' = "loop"
    /\ Len(folded') = Len(folded) + 1

SetMax(S) == CHOOSE x \in S : \A y \in S : y <= x

ExampleFeed ==
    << Msg(FALSE, TodayText, TRUE, <<Seg(G1, <<R_06_11>>)>>, T_08),
       Msg(FALSE, TodayText, FALSE, <<Seg(G1, <<R_14_16>>)>>, T_09) >>

ExampleSlots ==
    << Slot(0, 360, NOT_PLANNED), Slot(360, 660, DEFINITE),
       Slot(660, 840, NOT_PLANNED), Slot(840, 960, DEFINITE),
       Slot(960, 1440, NOT_PLANNED) >>

(***************************************************************************)
(* C1: patch semantics.  When a message without a full-schedule marker     *)
(* lists a non-empty list of ranges R for group g on day d, the raw ranges *)
(* of (g, d) after the message are the previous ones plus R, and the slots *)
(* of (g, d) are the Interval Merger applied to that union.  The full      *)
(* update 06:00-11:00 followed by the patch 14:00-16:00 gives the five     *)
(* slots of ExampleSlots.                                                  *)
(***************************************************************************)
C1_PatchAddsRanges ==
    [][ LoopStep =>
          LET msg == folded'[Len(folded')]
              c == Classify(msg, today)
          IN  /\ (c.kind = "apply" /\ ~msg.full) =>
                    \A g \in Groups :
                        LET R == AllRangesFor(msg.segs, g)
                            before == RawOf(schedule, g, c.day_key)
                        IN  R # <<>> =>
                              /\ RawOf(schedule', g, c.day_key) = SortRanges(before \o R)
                              /\ SlotsOf(schedule', g, c.day_key)
                                     = RangesToSlots(before \o R)
              /\ folded' = ExampleFeed =>
                    SlotsOf(schedule', G1, API_KEY_TODAY) = ExampleSlots
      ]_vars

C1_Witness ==
    /\ fold_pc = "loop"
    /\ folded = ExampleFeed
    /\ RawOf(schedule, G1, API_KEY_TODAY) = <<<<360, 660>>, <<840, 960>>>>
    /\ SlotsOf(schedule, G1, API_KEY_TODAY) = ExampleSlots

(***************************************************************************)
(* C2: full-update semantics.  If a full-schedule message M is the last    *)
(* message of the fold that touches (g, d), the final slots of (g, d) are  *)
(* the Interval Merger applied to exactly the ranges M lists for g, also   *)
(* when M mentions g in more than one segment.                             *)
(***************************************************************************)
TouchingIndexes(g, k) ==
    {i \in 1..Len(folded) : Touches(folded[i], g, k, today)}

C2_FullUpdateReplaces ==
    fold_pc = "done" =>
        \A g \in Groups, k \in DayKeys :
            LET idx == TouchingIndexes(g, k)
            IN  (idx # {} /\ folded[SetMax(idx)].full) =>
                    SlotsOf(schedule, g, k)
                        = RangesToSlots(AllRangesFor(folded[SetMax(idx)].segs, g))

(***************************************************************************)
(* C3: for every range list the extractor can produce, the slot list of    *)
(* the Interval Merger is sorted, starts at 0, ends at 1440, each slot's   *)
(* end is the next slot's start, every slot has start <= end and the       *)
(* durations sum to 1440.                                                  *)
(***************************************************************************)
RECURSIVE SumDurations(_)
SumDurations(slots) ==
    IF slots = <<>> THEN 0
    ELSE (Head(slots).end - Head(slots).start) + SumDurations(Tail(slots))

TilesDay(slots) ==
    /\ slots # <<>>
    /\ slots[1].start = 0
    /\ slots[Len(slots)].end = MINUTES_IN_DAY
    /\ \A i \in 1..Len(slots) : slots[i].start <= slots[i].end
    /\ \A i \in 1..(Len(slots) - 1) :
          /\ slots[i].end = slots[i + 1].start
          /\ slots[i].start <= slots[i + 1].start
    /\ SumDurations(slots) = MINUTES_IN_DAY

C3_MergerTilesDay == merger_pc = "output" => TilesDay(final_slots)

(***************************************************************************)
(* C4: in the schedule returned by the fold, every DayRecord (Today and    *)
(* Tomorrow of every group, backfilled records included) has a slot list   *)
(* that is sorted, contiguous, non-overlapping and covers [0, 1440).       *)
(***************************************************************************)
C4_EveryDayRecordTilesDay ==
    fold_pc = "done" =>
        \A g \in DOMAIN schedule :
            \A k \in DayKeys \cap DOMAIN schedule[g] :
                TilesDay(schedule[g][k].slots)

(***************************************************************************)
(* C8: after the fold, every group of the returned schedule has a Today    *)
(* record, a Tomorrow record and an updatedOn value; a record no message   *)
(* contributed ranges to has status WaitingForSchedule, an empty slot list *)
(* and the date of its civil day, and a record some message contributed    *)
(* ranges to has status ScheduleApplies.                                   *)
(***************************************************************************)
CivilDay(k) == IF k = API_KEY_TODAY THEN today ELSE NextDay(today)

C8_GroupsFullyPopulated ==
    fold_pc = "done" =>
        \A g \in DOMAIN schedule :
            /\ DayKeys \cup {"updatedOn"} \subseteq DOMAIN schedule[g]
            /\ \A k \in DayKeys :
                  IF TouchingIndexes(g, k) # {}
                  THEN schedule[g][k].status = API_STATUS_SCHEDULE_APPLIES
                  ELSE /\ schedule[g][k].status = API_STATUS_WAITING_FOR_SCHEDULE
                       /\ schedule[g][k].slots = <<>>
                       /\ schedule[g][k].date = CivilDay(k)

C8_Witness ==
    /\ fold_pc = "done"
    /\ today = <<2024, 12, 31>>
    /\ HasDay(schedule, G1, API_KEY_TODAY)
    /\ HasDay(schedule, G1, API_KEY_TOMORROW)
    /\ TouchingIndexes(G1, API_KEY_TODAY) # {}
    /\ TouchingIndexes(G1, API_KEY_TOMORROW) = {}
    /\ schedule[G1][API_KEY_TODAY].status = API_STATUS_SCHEDULE_APPLIES
    /\ schedule[G1][API_KEY_TOMORROW] = WaitingDay(<<2025, 1, 1>>)

(***************************************************************************)
(* C9: when the publish timestamps of the messages that touched a group g  *)
(* all parse (and can be compared), the final updatedOn of g is the        *)
(* maximum publish timestamp among exactly those messages, whatever the    *)
(* order in which they were folded.                                        *)
(***************************************************************************)
StampedTouching(g) ==
    {i \in 1..Len(folded) :
        TouchesGroup(folded[i], g, today) /\ folded[i].pub # NoPubTime}

Comparable(idx) ==
    /\ \A i \in idx : FromIsoFormat(folded[i].pub).kind # "ValueError"
    /\ \A i, j \in idx :
          FromIsoFormat(folded[i].pub).kind = FromIsoFormat(folded[j].pub).kind

ClaimedYear(now, month) ==
    CASE month = 1 /\ now[2] = 12 -> now[1] + 1
      [] month = 12 /\ now[2] = 1 -> now[1] - 1
      [] OTHER -> now[1]

\* the message's date as the claim resolves it, for a message that names one
ClaimedDate(msg, now) ==
    LET month == MONTHS_MAP[msg.dates[1].word]
    IN  <<ClaimedYear(now, month), month, msg.dates[1].day>>

AppliedTo(g, k) == RawOf(schedule', g, k) # RawOf(schedule, g, k)

C10_YearResolution ==
    [][ (fold_pc = "loop" /\ Len(folded') = Len(folded) + 1) =>
          LET msg == folded'[Len(folded')]
          IN  (/\ ~msg.city
               /\ msg.dates # <<>>
               /\ msg.dates[1].word \in DOMAIN MONTHS_MAP
               /\ AllRangesFor(msg.segs, G1) # <<>>) =>
                 LET date == ClaimedDate(msg, today)
                 IN  /\ AppliedTo(G1, API_KEY_TODAY) <=> date = today
                     /\ AppliedTo(G1, API_KEY_TOMORROW) <=> date = NextDay(today)
                     /\ (date # today /\ date # NextDay(today)) =>
                            /\ schedule' = schedule
                            /\ group_update_times' = group_update_times
                     /\ \A k \in DayKeys :
                            (AppliedTo(G1, k) /\ ~HasDay(schedule, G1, k)) =>
                                schedule'[G1][k].date = date
                     /\ (today = <<2024, 12, 31>> /\ msg.dates[1] = DateTok(1, "SICHNYA")) =>
                            /\ AppliedTo(G1, API_KEY_TOMORROW)
                            /\ schedule'[G1][API_KEY_TOMORROW].date = <<2025, 1, 1>>
                     /\ (today = <<2025, 1, 1>> /\ msg.dates[1] = DateTok(31, "GRUDNYA")) =>
                            schedule' = schedule
      ]_vars

C10_Witness ==
    /\ fold_pc = "loop"
    /\ today = <<2024, 12, 31>>
    /\ Len(folded) = 1
    /\ folded[1].dates = <<DateTok(1, "SICHNYA")>>
    /\ HasDay(schedule, G1, API_KEY_TOMORROW)
    /\ ~HasDay(schedule, G1, API_KEY_TODAY)
    /\ schedule[G1][API_KEY_TOMORROW].date = <<2025, 1, 1>>

(***************************************************************************)
(* Vocabulary of the properties of the reconciler.                         *)
(***************************************************************************)
CombineRuns == pc = "combine" /\ pc' = "done"

SecondaryStatus(k) ==
    IF HasGroup(yasno_data, group) /\ k \in DOMAIN yasno_data[group]
    THEN StatusOf(yasno_data[group][k])
    ELSE "None"

(***************************************************************************)
(* C5: when the primary schedule contains the caller's group, the          *)
(* published schedule is the primary one; for Today and Tomorrow the       *)
(* published status is EmergencyShutdowns if the secondary record of the   *)
(* same group and day has that status, and the primary's status otherwise. *)
(* Only the status field changes: slots, date and every other entry of the *)
(* primary, and the secondary schedule itself, are unchanged.              *)
(***************************************************************************)
C5_EmergencyOverride ==
    [][ (CombineRuns /\ HasGroup(cek_data, group)) =>
          /\ DOMAIN planned_outages_data' = DOMAIN cek_data
          /\ \A g \in DOMAIN cek_data \ {group} :
                planned_outages_data'[g] = cek_data[g]
          /\ DOMAIN planned_outages_data'[group] = DOMAIN cek_data[group]
          /\ planned_outages_data'[group]["updatedOn"] = cek_data[group]["updatedOn"]
          /\ \A k \in DayKeys :
                planned_outages_data'[group][k] =
                    [cek_data[group][k] EXCEPT !.status =
                        IF SecondaryStatus(k) = API_STATUS_EMERGENCY_SHUTDOWNS
                        THEN API_STATUS_EMERGENCY_SHUTDOWNS
                        ELSE cek_data[group][k].status]
          /\ yasno_data' = yasno_data
      ]_vars

C5_Witness ==
    /\ pc = "done"
    /\ group = G1
    /\ SecondaryStatus(API_KEY_TODAY) = API_STATUS_EMERGENCY_SHUTDOWNS
    /\ SecondaryStatus(API_KEY_TOMORROW) = API_STATUS_WAITING_FOR_SCHEDULE
    /\ HasGroup(planned_outages_data, G1)
    /\ planned_outages_data[G1][API_KEY_TODAY] =
          [date |-> <<2024, 12, 31>>,
           status |-> API_STATUS_EMERGENCY_SHUTDOWNS,
           slots |-> ExampleSlots,
           raw_ranges |-> <<<<360, 660>>, <<840, 960>>>>]
    /\ planned_outages_data[G1][API_KEY_TOMORROW] = WaitingDay(<<2025, 1, 1>>)

(***************************************************************************)
(* C6: when the primary schedule is absent, empty or has no entry for the  *)
(* caller's group, and the secondary fetch succeeded, the published        *)
(* schedule is the secondary schedule unchanged.                           *)
(***************************************************************************)
C6_FallbackIsSecondary ==
    [][ (CombineRuns /\ ~HasGroup(cek_data, group) /\ yasno_ok) =>
          /\ planned_outages_data' = yasno_data
          /\ yasno_data' = yasno_data
      ]_vars

C6_Witness ==
    /\ pc = "done"
    /\ group = G2
    /\ yasno_ok
    /\ cek_data = EmptyDict
    /\ yasno_data = (G2 :> YasnoGroupData(API_STATUS_EMERGENCY_SHUTDOWNS,
                                          API_STATUS_WAITING_FOR_SCHEDULE))
    /\ planned_outages_data = yasno_data

(***************************************************************************)
(* C7: a run in which both the secondary fetch and the primary fetch/fold  *)
(* yield no data ends as a hard failure and leaves the caller with no      *)
(* schedule, in particular not the one an earlier run published.           *)
(***************************************************************************)
C7_BothFailedIsHardFailure ==
    (pc = "done" /\ ~Truthy(yasno_data) /\ ~Truthy(cek_data)) =>
        /\ outcome = "raised"
        /\ ~Truthy(planned_outages_data)

(***************************************************************************)
(* C11: exclusion filter.  The schedule and the updatedOn values the fold  *)
(* returns are those of folding the same sequence with every message that  *)
(* contains an excluded place name removed: such a message creates no      *)
(* group, adds or replaces no range and never advances updatedOn.          *)
(***************************************************************************)
WithoutExcluded(msgs) == SelectSeq(msgs, LAMBDA m : ~m.city)

LoopState(msgs, now) ==
    FoldMessages([status |-> "ok", schedule |-> EmptyDict, times |-> EmptyDict],
                 msgs, now)

C11_ExcludedMessagesAreInert ==
    /\ fold_pc = "loop" =>
          LET st == LoopState(WithoutExcluded(folded), today)
          IN  /\ st.status = "ok"
              /\ schedule = st.schedule
              /\ group_update_times = st.times
    /\ fold_pc = "done" =>
          LET r == ParseMessagesToSchedule(WithoutExcluded(folded), today)
          IN  /\ r.status = "ok"
              /\ schedule = r.schedule
    /\ fold_pc = "raised" =>
          LoopState(WithoutExcluded(folded), today).status = "raised"

C11_Witness ==
    /\ fold_pc = "done"
    /\ Len(folded) = 2
    /\ ~folded[1].city
    /\ folded[1].pub = T_08
    /\ folded[1].full
    /\ folded[2].city
    /\ folded[2].pub = T_09
    /\ AllRangesFor(folded[2].segs, G1) # <<>>
    /\ RawOf(schedule, G1, API_KEY_TODAY) = <<<<840, 960>>>>
    /\ schedule[G1]["updatedOn"] = T_08

(***************************************************************************)
(* C12: in every state of the fold, every range stored in the raw ranges   *)
(* of any (group, day) satisfies 0 <= start < end <= 1440: an end token of *)
(* 00:00 is stored as 1440 and a range without start < end is discarded.   *)
(***************************************************************************)
WellFormedRange(r) == 0 <= r[1] /\ r[1] < r[2] /\ r[2] <= MINUTES_IN_DAY

C12_RawRangesWellFormed ==
    fold_pc \in {"loop", "done"} =>
        \A g \in DOMAIN schedule :
            \A k \in DayKeys \cap DOMAIN schedule[g] :
                \A i \in 1..Len(RawRanges(schedule[g][k])) :
                    WellFormedRange(RawRanges(schedule[g][k])[i])

(***************************************************************************)
(* C13: idempotence of the Interval Merger.  For every input range list,   *)
(* merging the Definite slots of the merger's output again returns a slot  *)
(* list equal to the first output.                                         *)
(***************************************************************************)
C13_MergerIdempotent == merger_pc = "remerged" => merged_again = final_slots

C13_Witness ==
    /\ merger_pc = "remerged"
    /\ body_text = <<Tok(11, 0, 14, 30), Tok(6, 0, 11, 0)>>
    /\ final_slots = << Slot(0, 360, NOT_PLANNED), Slot(360, 870, DEFINITE),
                        Slot(870, 1440, NOT_PLANNED) >>
    /\ merged_again = final_slots

(***************************************************************************)
(* C14: frame of one fold step.  Processing a message changes only the     *)
(* (g, k) records where k is the message's resolved day key and g a group  *)
(* for which the message lists at least one range; every other group, the  *)
(* other day key of the same groups and the updatedOn candidates of the    *)
(* groups not touched are unchanged.  A message that is skipped or whose   *)
(* bodies all yield zero ranges changes neither the schedule nor the       *)
(* timestamp bookkeeping and creates no group entry.                       *)
(***************************************************************************)
ConsumesMessage == fold_pc = "loop" /\ Len(folded') = Len(folded) + 1

SameEntry(f, h, x) ==
    /\ x \in DOMAIN f <=> x \in DOMAIN h
    /\ x \in DOMAIN f => f[x] = h[x]

C14_FoldStepFrame ==
    [][ConsumesMessage =>
          LET msg == folded'[Len(folded')]
              all == Groups \cup DOMAIN schedule \cup DOMAIN schedule'
                     \cup DOMAIN group_update_times \cup DOMAIN group_update_times'
              touched == {g \in all : AllRangesFor(msg.segs, g) # <<>>
                                        /\ TouchesGroup(msg, g, today)}
          IN  /\ \A g \in all \ touched :
                    /\ SameEntry(schedule, schedule', g)
                    /\ SameEntry(group_update_times, group_update_times', g)
              /\ \A g \in touched : \A k \in DayKeys :
                    ~Touches(msg, g, k, today) =>
                        /\ HasDay(schedule, g, k) <=> HasDay(schedule', g, k)
                        /\ HasDay(schedule, g, k) => schedule'[g][k] = schedule[g][k]
              /\ touched = {} =>
                    /\ schedule' = schedule
                    /\ group_update_times' = group_update_times]_vars

C14_Witness ==
    /\ fold_pc = "loop"
    /\ Len(folded) = 2
    /\ Touches(folded[1], G1, API_KEY_TODAY, today)
    /\ Touches(folded[2], G1, API_KEY_TOMORROW, today)
    /\ ~TouchesGroup(folded[2], G2, today)
    /\ HasDay(schedule, G1, API_KEY_TODAY)
    /\ HasDay(schedule, G1, API_KEY_TOMORROW)
    /\ RawOf(schedule, G1, API_KEY_TODAY) # <<>>
    /\ G2 \notin DOMAIN schedule

(***************************************************************************)
(* C15: the fold completes for every message sequence.  A message whose    *)
(* date text does not resolve to an existing calendar date (no day/month   *)
(* pair, an unknown month word, a day the month does not have) is dropped  *)
(* as a skip, and the updates of the messages folded before and after it   *)
(* are all present: the fold behaves as if the message were not there.     *)
(***************************************************************************)
Unresolvable(msg, now) ==
    \/ msg.dates = <<>>
    \/ msg.dates[1].word \notin DOMAIN MONTHS_MAP
    \/ LET d == ClaimedDate(msg, now) IN ~ValidDate(d[1], d[2], d[3])

WithoutUnresolvable(msgs, now) == SelectSeq(msgs, LAMBDA m : ~Unresolvable(m, now))

C15_UnresolvableDateIsSkipped ==
    /\ fold_pc # "raised"
    /\ fold_pc = "loop" =>
          LET st == LoopState(WithoutUnresolvable(folded, today), today)
          IN  schedule = st.schedule /\ group_update_times = st.times
    /\ fold_pc = "done" =>
          schedule = ParseMessagesToSchedule(WithoutUnresolvable(folded, today),
                                             today).schedule

(***************************************************************************)
(* C16: timestamp comparison fails open.  When a group already has a       *)
(* candidate updatedOn and a later-folded message that touches it carries  *)
(* a publish timestamp, then if either timestamp fails to parse, or the    *)
(* two cannot be compared, or they denote the same instant, the later      *)
(* message's timestamp becomes the candidate; the fold is never aborted    *)
(* by the comparison.                                                      *)
(***************************************************************************)
FailsToParse(s) == FromIsoFormat(s).kind = "ValueError"

Incomparable(s, t) ==
    /\ ~FailsToParse(s) /\ ~FailsToParse(t)
    /\ FromIsoFormat(s).kind # FromIsoFormat(t).kind

SameInstant(s, t) ==
    /\ ~FailsToParse(s) /\ ~FailsToParse(t) /\ ~Incomparable(s, t)
    /\ FromIsoFormat(s).inst = FromIsoFormat(t).inst

C16_TimestampComparisonFailsOpen ==
    [][ConsumesMessage =>
          LET msg == folded'[Len(folded')]
          IN  \A g \in DOMAIN group_update_times :
                 (TouchesGroup(msg, g, today) /\ msg.pub # NoPubTime) =>
                    /\ fold_pc' = "loop"
                    /\ g \in DOMAIN group_update_times'
                    /\ (\/ FailsToParse(group_update_times[g])
                        \/ FailsToParse(msg.pub)
                        \/ Incomparable(group_update_times[g], msg.pub)
                        \/ SameInstant(group_update_times[g], msg.pub))
                       => group_update_times'[g] = msg.pub]_vars

(***************************************************************************)
(* C17: Today/Tomorrow classification depends only on the instant and the  *)
(* publication timezone.  Whatever the host's local timezone, every        *)
(* message is classified as on a host in Europe/Kyiv at the same instant,  *)
(* and the returned schedule is the one that host returns: Today is the    *)
(* civil date of the instant in Kyiv.                                      *)
(***************************************************************************)
C17_ClassificationIsHostIndependent ==
    /\ \A i \in 1..Len(folded) :
          Classify(folded[i], today) = Classify(folded[i], clock.date)
    /\ fold_pc = "done" =>
          schedule = ParseMessagesToSchedule(folded, clock.date).schedule

(***************************************************************************)
(* C18: a message is dated by the first occurrence in its text of a day    *)
(* number followed by a recognised month name, even when an earlier        *)
(* position holds a number followed by a word that is not a month name;    *)
(* it carries no date only if no such occurrence exists in the text.       *)
(***************************************************************************)
RECURSIVE FirstMonthDate(_)
FirstMonthDate(dates) ==
    IF dates = <<>> THEN <<>>
    ELSE IF Head(dates).word \in DOMAIN MONTHS_MAP THEN <<Head(dates)>>
    ELSE FirstMonthDate(Tail(dates))

C18_DatedByFirstMonthName ==
    [][ConsumesMessage =>
          LET msg == folded'[Len(folded')]
              dated == [msg EXCEPT !.dates = FirstMonthDate(msg.dates)]
              r == ParseMessage([schedule |-> schedule, times |-> group_update_times],
                                dated, today)
          IN  /\ schedule' = r.schedule
              /\ group_update_times' = r.times
              /\ fold_pc' = "raised" <=> r.status = "raised"]_vars

(***************************************************************************)
(* C19: for every input list of ranges with 0 <= start < end <= 1440, the  *)
(* minutes covered by the Definite slots of the merger's output are        *)
(* exactly the union of the input ranges, every slot has start < end, and  *)
(* consecutive slots alternate between Definite and NotPlanned; for the    *)
(* empty input the output is the single slot [0, 1440) NotPlanned.         *)
(***************************************************************************)
MergerInput == ExtractOutageRanges(body_text)

InRanges(minute, ranges) ==
    \E i \in 1..Len(ranges) : ranges[i][1] <= minute /\ minute < ranges[i][2]

InDefinite(minute, slots) ==
    \E i \in 1..Len(slots) :
        /\ slots[i].type = DEFINITE
        /\ slots[i].start <= minute /\ minute < slots[i].end

C19_DefiniteIsUnionOfInputs ==
    (/\ merger_pc \in {"output", "remerged"}
     /\ \A i \in 1..Len(MergerInput) : WellFormedRange(MergerInput[i])) =>
        /\ \A minute \in 0..(MINUTES_IN_DAY - 1) :
              InDefinite(minute, final_slots) <=> InRanges(minute, MergerInput)
        /\ \A i \in 1..Len(final_slots) : final_slots[i].start < final_slots[i].end
        /\ \A i \in 1..(Len(final_slots) - 1) :
              final_slots[i].type # final_slots[i + 1].type
        /\ MergerInput = <<>> =>
              final_slots = <<Slot(0, MINUTES_IN_DAY, NOT_PLANNED)>>

C19_Witness ==
    /\ merger_pc = "output"
    /\ MergerInput = <<<<660, 870>>, <<360, 660>>>>
    /\ final_slots = << Slot(0, 360, NOT_PLANNED), Slot(360, 870, DEFINITE),
                        Slot(870, 1440, NOT_PLANNED) >>

(***************************************************************************)
(* C20: patches commute and are idempotent at the slot level.  For patch   *)
(* messages touching the same (g, d) and folded after the same prefix, the *)
(* slots of (g, d) are the same in either order, and folding the same      *)
(* patch twice yields the same slots as folding it once.                   *)
(***************************************************************************)
BothPatchesTouch(p, q, g, k) ==
    /\ ~p.full /\ ~q.full
    /\ Touches(p, g, k, today) /\ Touches(q, g, k, today)

C20_PatchesCommuteAndAreIdempotent ==
    (fold_pc = "loop" /\ Len(folded) >= 2) =>
        LET n == Len(folded)
            prefix == SubSeq(folded, 1, n - 2)
            p == folded[n - 1]
            q == folded[n]
            swapped == LoopState(prefix \o <<q, p>>, today).schedule
            once == LoopState(prefix \o <<p>>, today).schedule
        IN  \A g \in Groups : \A k \in DayKeys :
               BothPatchesTouch(p, q, g, k) =>
                  /\ SlotsOf(schedule, g, k) = SlotsOf(swapped, g, k)
                  /\ p = q => SlotsOf(schedule, g, k) = SlotsOf(once, g, k)

====
